---- MODULE Spec2Model ----
(***************************************************************************)
(* TkTransl, thread generation: the per-file dispatcher loop of            *)
(* src/tktransl.py (main, thread_wrapper) and the reply validation of      *)
(* src/sakurallm.py (batch_translate).                                     *)
(*                                                                         *)
(* Text is a sequence of one-character strings.  An object of a work file  *)
(* is a record of its fields, an entry is the object with its "index", a   *)
(* result is the entry with "target".  The loop decides nothing by the     *)
(* text of a target, so what a thread publishes, and with it               *)
(* translated_results, keeps every result with one text for its target;    *)
(* the text batch_translate gives a target is followed in TextSpec, on one *)
(* call with a batch of one entry.                                         *)
(***************************************************************************)
EXTENDS Integers, Sequences, FiniteSets, TLC

\* ------------------------------------------------------------------ bounds
\* length of the work file's JSON array (indices 0 .. FileLen-1)
FileLen == 4
\* number of API endpoints given on the command line is 1 .. MaxEndpoints
MaxEndpoints == 2
\* --batch-size is 1 .. MaxBatchSize
MaxBatchSize == 2
\* the model's reply is a text of at most MaxReplyLen characters
MaxReplyLen == 2

\* -------------------------------------------------------------------- text
LF == "\n"
CR == "\r"

\* characters a reply is made of
ReplyChars == {"a", LF, CR}

RECURSIVE TextsUpTo(_, _)
TextsUpTo(chars, n) ==
    IF n = 0 THEN {<<>>}
    ELSE LET shorter == TextsUpTo(chars, n - 1)
         IN  shorter \cup {Append(t, c) : t \in shorter, c \in chars}

\* the accumulated replies (api_response) an endpoint can stream back
Replies == TextsUpTo(ReplyChars, MaxReplyLen)

\* str.splitlines(): split at LF, CR and CR LF; no empty last line
RECURSIVE SplitFrom(_, _, _, _)
SplitFrom(s, i, cur, acc) ==
    IF i > Len(s) THEN (IF cur = <<>> THEN acc ELSE Append(acc, cur))
    ELSE IF s[i] = CR /\ i < Len(s) /\ s[i + 1] = LF
         THEN SplitFrom(s, i + 2, <<>>, Append(acc, cur))
    ELSE IF s[i] \in {LF, CR}
         THEN SplitFrom(s, i + 1, <<>>, Append(acc, cur))
    ELSE SplitFrom(s, i + 1, Append(cur, s[i]), acc)

splitlines(s) == SplitFrom(s, 1, <<>>, <<>>)

\* s.replace("\n", "")
RemoveLF(s) == SelectSeq(s, LAMBDA c : c # LF)

\* the corner brackets U+300C and U+300D that frame what a speaker says
OQ == "["
CQ == "]"

\* sub in s
contains(s, sub) ==
    \E i \in 1..(Len(s) - Len(sub) + 1) : SubSeq(s, i, i + Len(sub) - 1) = sub

\* s.replace(old, new) for a non-empty old: the occurrences of old from the
\* left, none overlapping another
RECURSIVE ReplaceFrom(_, _, _, _)
ReplaceFrom(s, old, new, i) ==
    IF i > Len(s) THEN <<>>
    ELSE IF i + Len(old) - 1 <= Len(s) /\ SubSeq(s, i, i + Len(old) - 1) = old
         THEN new \o ReplaceFrom(s, old, new, i + Len(old))
    ELSE <<s[i]>> \o ReplaceFrom(s, old, new, i + 1)

replace(s, old, new) == ReplaceFrom(s, old, new, 1)

\* s.find(c) and s.rfind(c) for one character c, as places 1 .. Len(s);
\* 0 when c is not in s
find(s, c) ==
    IF \E i \in 1..Len(s) : s[i] = c
    THEN CHOOSE i \in 1..Len(s) : s[i] = c /\ \A j \in 1..(i - 1) : s[j] # c
    ELSE 0

rfind(s, c) ==
    IF \E i \in 1..Len(s) : s[i] = c
    THEN CHOOSE i \in 1..Len(s) : s[i] = c /\ \A j \in (i + 1)..Len(s) : s[j] # c
    ELSE 0

\* source.strip() is empty
is_blank(s) == \A i \in 1..Len(s) : s[i] \in {LF, CR}

\* {**d, **e} and d.update(e)
update(d, e) ==
    [k \in (DOMAIN d) \cup (DOMAIN e) |-> IF k \in DOMAIN e THEN e[k] ELSE d[k]]

\* --------------------------------------------------------- sakurallm.py
\* class hierarchy: TranslationCountError is a TranslateError
TranslateErrors == {"TranslateError", "TranslationCountError"}

\* what ask_stream can raise: non-200 status, network error or timeout of
\* httpx, a data line that is no JSON; none of them is a TranslateError
TransportFailures == {"RuntimeError", "httpx.TransportError", "orjson.JSONDecodeError"}

\* the validation of the accumulated reply: the lines entries are built from,
\* or the error raised
CountMismatch(source_texts, api_response) ==
    Len(source_texts) # Len(splitlines(api_response))

\* mutant: the reply of a single entry is not collapsed into one line
response_lines_uncollapsed(source_texts, api_response) == splitlines(api_response)

response_lines(source_texts, api_response) ==
    IF CountMismatch(source_texts, api_response)
    THEN <<RemoveLF(api_response)>>
    ELSE splitlines(api_response)

\* zip(source_texts, response_lines): one result per pair
final_results(source_texts, lines) ==
    LET n == IF Len(source_texts) < Len(lines) THEN Len(source_texts) ELSE Len(lines)
    IN  [k \in 1..n |-> update(source_texts[k], [target |-> lines[k]])]

\* batch_translate once ask_stream delivered api_response
batch_translate(source_texts, api_response) ==
    IF CountMismatch(source_texts, api_response) /\ Len(source_texts) # 1
    THEN [kind |-> "raise", exc |-> "TranslationCountError",
          sources_count |-> Len(source_texts),
          targets_count |-> Len(splitlines(api_response))]
    ELSE [kind |-> "return",
          value |-> final_results(source_texts,
                                  response_lines(source_texts, api_response))]

\* ------------------------------------------ the text of one batch entry
\* random.randint(0, 2**16) draws from 0 .. 2**16; here from 0 .. RandomMax
RandomMax == 1

\* f"<{base_name}-{r}>", a text of one character of its own
placeholder_token(base_name, r) == <<"<" \o base_name \o "-" \o ToString(r) \o ">">>

\* mutant: the token is not looked up in the text
generate_placeholder_token_unchecked(base_name, text) ==
    {[kind |-> "return", value |-> placeholder_token(base_name, r)] : r \in 0..RandomMax}

\* utils.generate_placeholder_token: what a call can end with. Every attempt
\* draws anew, so the call returns any token that is not in the text, and it
\* raises when all attempts drew a token that is in the text.
generate_placeholder_token(base_name, text) ==
    LET candidates == {placeholder_token(base_name, r) : r \in 0..RandomMax}
        fresh == {t \in candidates : ~contains(text, t)}
    IN  {[kind |-> "return", value |-> t] : t \in fresh}
        \cup (IF fresh # candidates
              THEN {[kind |-> "raise", exc |-> "RuntimeError"]}
              ELSE {})

\* the line of the prompt made of one entry
processed_text(text_entry, tokens) ==
    LET body == replace(replace(text_entry.source, <<CR, LF>>, <<LF>>),
                        <<LF>>, tokens.newline_token)
    IN  IF "speaker" \in DOMAIN text_entry
        THEN text_entry.speaker \o <<OQ>>
             \o replace(replace(body, <<OQ>>, tokens.quote_start_token),
                        <<CQ>>, tokens.quote_end_token)
             \o <<CQ>>
        ELSE body

\* mutant: the newline placeholder is left in the line
restored_text_kept(translated_text, newline_token) == translated_text

\* translated_text.replace(newline_token, "\n")
restored_text(translated_text, newline_token) ==
    replace(translated_text, newline_token, <<LF>>)

\* mutant: the quote placeholders are left in what the speaker says
dialog_content_kept(dialog_part, tokens) ==
    IF contains(dialog_part, <<CQ>>)
    THEN SubSeq(dialog_part, 1, rfind(dialog_part, CQ) - 1)
    ELSE dialog_part

\* what the speaker says: the text after the first opening bracket, cut at
\* its last closing bracket, with the quote placeholders restored
dialog_content(dialog_part, tokens) ==
    LET cut == IF contains(dialog_part, <<CQ>>)
               THEN SubSeq(dialog_part, 1, rfind(dialog_part, CQ) - 1)
               ELSE dialog_part
    IN  replace(replace(cut, tokens.quote_start_token, <<OQ>>),
                tokens.quote_end_token, <<CQ>>)

\* one pass of the loop over zip(source_texts, response_lines)
result_entry(source_entry, translated_text, tokens) ==
    LET restored == restored_text(translated_text, tokens.newline_token)
        plain == update(source_entry, [target |-> restored])
    IN  IF "speaker" \in DOMAIN source_entry /\ contains(restored, <<OQ>>)
        THEN LET at == find(restored, OQ)
                 speaker_part == SubSeq(restored, 1, at - 1)
                 dialog_part == SubSeq(restored, at + 1, Len(restored))
             IN  update(plain, [target |-> dialog_content(dialog_part, tokens),
                                target_speaker |-> speaker_part])
        ELSE plain

\* ----------------------------------------------------------- tktransl.py
\* list.sort(key=lambda x: x["index"])
sort_by_index(s) == SortSeq(s, LAMBDA a, b : a.index < b.index)

\* mutant: the results of the batch replace those integrated before
integrate_replacing(results, value) == value

\* mutant: the results are appended and not sorted
integrate_unsorted(results, value) == results \o value

\* translated_results.extend(batch_result); translated_results.sort(...)
integrate(results, value) == sort_by_index(results \o value)

\* mutant: the batch of a failed request is put behind the queue
release_unsorted(queue, processing) == queue \o processing

\* mutant: the batch of a failed request is not returned to the queue
release_lost(queue, processing) == queue

\* untranslated_texts.extend(processing_texts); untranslated_texts.sort(...)
release(queue, processing) == sort_by_index(queue \o processing)

\* mutant: the batch size is left as it is after a count mismatch
halve_forgotten(size) == size

\* dynamic_batch_size //= 2
halve(size) == size \div 2

\* mutant: the batch is taken from the end of the queue
Take_tail(s, n) ==
    SubSeq(s, (IF n < Len(s) THEN Len(s) - n ELSE 0) + 1, Len(s))

\* mutant: the whole queue is taken as the batch
Take_all(s, n) == s

\* mutant: the dispatched entries stay in the queue
Drop_nothing(s, n) == s

\* s[:n] and s[n:] for n >= 0
Take(s, n) == SubSeq(s, 1, IF n < Len(s) THEN n ELSE Len(s))
Drop(s, n) == SubSeq(s, (IF n < Len(s) THEN n ELSE Len(s)) + 1, Len(s))

\* mutant: the loop ends one result early
loop_condition_early(results, total) == Len(results) + 1 < total

\* the while condition of the dispatcher loop
loop_condition(results, total) == Len(results) < total

\* mutant: the size is left as the halvings made it
restored_size_kept(initial, current) == current

\* dynamic_batch_size = args.batch_size
restored_size(initial, current) == initial

\* translated_results[-args.history_size:]; -0 is 0, and the slice from 0
\* is the whole list
history_window(results, size) ==
    IF size = 0 THEN results
    ELSE SubSeq(results, (IF size < Len(results) THEN Len(results) - size ELSE 0) + 1,
                Len(results))

\* mutant: the outcome stays in the container
cleared_kept(container) == container

\* result_container.clear()
cleared(container) == <<>>

\* isinstance(batch_result, list) / isinstance(batch_result, TranslateError)
is_list(x) == x.kind = "list"
is_translate_error(x) == x.kind = "error" /\ x.exc \in TranslateErrors

\* except TranslateError in thread_wrapper
caught(exc) == exc \in TranslateErrors

\* the text every target has in the loop
Translated == <<"t">>

\* what the loop keeps of a result: the result, its target the one text
done_entry(result) == update(result, [target |-> Translated])

\* the result thread_wrapper appends to the container: the list returned, or
\* the TranslateError caught
published(r) ==
    IF r.kind = "return"
    THEN [kind |-> "list",
          value |-> [k \in 1..Len(r.value) |-> done_entry(r.value[k])]]
    ELSE [kind |-> "error", exc |-> r.exc,
          sources_count |-> r.sources_count, targets_count |-> r.targets_count]

VARIABLES
    endpoints,           \* args.endpoints, as the worker numbers 1 .. K
    batch_size,          \* args.batch_size
    total_texts,         \* len(untranslated_texts) when the file was read
    pending,             \* the indices of the entries read as untranslated
    untranslated_texts,  \* the queue
    translated_results,  \* done
    dynamic_batch_size,
    result_container,    \* per worker: <<>> or <<outcome>>
    processing_texts,    \* per worker: the batch in flight
    thread,              \* per worker: the thread started last
    batch_result,        \* the outcome the dispatcher picked up last
    pc,                  \* the dispatcher: "for", "sleep", "exit"; the driver:
                         \* "skipped", "written", "interrupted"
    cursor,              \* the worker the for loop visits next
    \* one call of batch_translate, with the text of its entry
    bt_pc,               \* where the call is: "mint", "prompt", "ask", "returned", "raised"
    entry,               \* source_texts[0]
    minted,              \* newline_token, quote_start_token, quote_end_token
    input_line,          \* processed_sources[0]
    reply,               \* api_response once the stream has ended
    returned,            \* what the call returned or raised
    \* the work file and the dictionary
    file_content,        \* the JSON array of the file
    pre_dict,            \* the pre-translation dictionary
    data,                \* the array merged for writing
    rewritten,           \* the file was written back
    \* the command line and the calls made with it
    args,                \* the parsed command line
    stream_output,       \* main's stream_output
    calls,               \* per endpoint: the call of batch_translate
    printed,             \* what was printed to standard output
    \* the coroutine generation (src/utils)
    messages,            \* the list of Message of one file
    cache,               \* the (source, speaker) pairs with a cached translation
    translators,         \* per translator: its batch_translate coroutine
    \* what the dispatches of the loop were made with, when it is followed
    history_size,        \* args.history_size
    handed,              \* per worker: the size in force and the history
                         \* given to the thread started last
    retry_limit,         \* per index: half the size of the batch with which
                         \* the entry last met a TranslationCountError, 0 if none
    \* one call of ask_stream whose response has status 200
    response,            \* the lines of the body, as iter_lines gives them
    line_no,             \* how many of them the for loop has taken
    fragments,           \* what the generator has yielded
    stream_pc,           \* "iter", "closed" (break), "exhausted", "raised"
    \* one call of batch_translate for a batch, with the text of its reply
    batch_sources,       \* source_texts
    batch_response,      \* api_response once the stream has ended
    batch_outcome,       \* Unset, then what the call returned or raised
    \* one call of check_degen
    degen_resp,          \* resp
    degen_threshold,     \* max_repetition_cnt
    degen_report,        \* Unset, then [kind |-> "return", value |-> the result]
    \* the three calls of generate_placeholder_token of one batch
    mint_sources,        \* the sources of source_texts
    mint_tokens,         \* the tokens returned so far
    mint_attempts,       \* the attempts the current call has made
    mint_pc              \* the base of the current call, "done" or "raised"

loop_vars == <<endpoints, batch_size, total_texts, pending,
               untranslated_texts, translated_results, dynamic_batch_size,
               result_container, processing_texts, thread, batch_result,
               pc, cursor>>

config == <<endpoints, batch_size, total_texts, pending>>

text_vars == <<bt_pc, entry, minted, input_line, reply, returned>>

file_vars == <<file_content, pre_dict, data, rewritten>>

call_vars == <<args, stream_output, calls, printed>>

co_vars == <<messages, cache, translators>>

dispatch_vars == <<history_size, handed, retry_limit>>

stream_vars == <<response, line_no, fragments, stream_pc>>

batch_vars == <<batch_sources, batch_response, batch_outcome>>

degen_vars == <<degen_resp, degen_threshold, degen_report>>

mint_vars == <<mint_sources, mint_tokens, mint_attempts, mint_pc>>

\* what no step of the dispatcher loop touches
beyond_visit == <<text_vars, file_vars, call_vars, co_vars, stream_vars,
                  batch_vars, degen_vars, mint_vars>>

\* what the dispatcher loop of one file does not touch, a dispatch apart
beyond_loop == <<beyond_visit, dispatch_vars>>

\* what a call of batch_translate does not touch
beyond_text == <<loop_vars, file_vars, call_vars, co_vars, dispatch_vars,
                  stream_vars, batch_vars,
                  degen_vars, mint_vars>>

\* what the write-back does not touch, the loop apart
beyond_file == <<text_vars, call_vars, co_vars, dispatch_vars,
                  stream_vars, batch_vars,
                  degen_vars, mint_vars>>

\* what the arguments of a call do not touch
beyond_call == <<loop_vars, text_vars, file_vars, co_vars, dispatch_vars,
                  stream_vars, batch_vars,
                  degen_vars, mint_vars>>

\* what the translators of the coroutine generation do not touch
beyond_co == <<loop_vars, text_vars, file_vars, call_vars, dispatch_vars,
                  stream_vars, batch_vars,
                  degen_vars, mint_vars>>

\* what the lines of a response do not touch
beyond_stream == <<loop_vars, text_vars, file_vars, call_vars, co_vars,
                   dispatch_vars, batch_vars, degen_vars, mint_vars>>

\* what the validation of a reply does not touch
beyond_batch == <<loop_vars, text_vars, file_vars, call_vars, co_vars,
                  dispatch_vars, stream_vars, degen_vars, mint_vars>>

\* what a call of check_degen does not touch
beyond_degen == <<loop_vars, text_vars, file_vars, call_vars, co_vars,
                  dispatch_vars, stream_vars, batch_vars, mint_vars>>

\* what the minting of the placeholders does not touch
beyond_mint == <<loop_vars, text_vars, file_vars, call_vars, co_vars,
                 dispatch_vars, stream_vars, batch_vars, degen_vars>>

vars == <<loop_vars, text_vars, file_vars, call_vars, co_vars, dispatch_vars,
          stream_vars, batch_vars, degen_vars, mint_vars>>

Unset == [kind |-> "unset"]

\* no call of batch_translate is looked into
TextIdle ==
    /\ bt_pc = "idle"
    /\ entry = Unset
    /\ minted = Unset
    /\ input_line = <<>>
    /\ reply = <<>>
    /\ returned = Unset

NoThread == [state |-> "none"]

\* no command line is followed
CallIdle ==
    /\ args = Unset
    /\ stream_output = FALSE
    /\ calls = <<>>
    /\ printed = <<>>

\* the dispatches are not followed
DispatchIdle ==
    /\ history_size = 0
    /\ handed = <<>>
    /\ retry_limit = <<>>

\* no file is translated by coroutines
CoIdle ==
    /\ messages = <<>>
    /\ cache = {}
    /\ translators = <<>>

\* no response is read
StreamIdle ==
    /\ response = <<>>
    /\ line_no = 0
    /\ fragments = <<>>
    /\ stream_pc = "idle"

\* no reply is validated
BatchIdle ==
    /\ batch_sources = <<>>
    /\ batch_response = <<>>
    /\ batch_outcome = Unset

\* no buffer is looked at for repetitions
DegenIdle ==
    /\ degen_resp = <<>>
    /\ degen_threshold = 0
    /\ degen_report = Unset

\* no placeholder is minted step by step
MintIdle ==
    /\ mint_sources = <<>>
    /\ mint_tokens = <<>>
    /\ mint_attempts = 0
    /\ mint_pc = "idle"

\* entry.get(key, default)
get(object, key, default) == IF key \in DOMAIN object THEN object[key] ELSE default

\* mutant: the target is not looked at
needs_translation_untargeted(object) ==
    ~is_blank(get(object, "source", <<>>))

\* the filter of read_texts_to_translate: the source is not blank and there
\* is no target, or an empty one
needs_translation(object) ==
    /\ ~is_blank(get(object, "source", <<>>))
    /\ get(object, "target", <<>>) = <<>>

\* the entries read_texts_to_translate yields for a file: those of the array
\* that need translation, each with its position, in array order
RECURSIVE EntriesFrom(_, _)
EntriesFrom(array, idx) ==
    IF idx >= Len(array) THEN <<>>
    ELSE (IF needs_translation(array[idx + 1])
          THEN <<update([index |-> idx], array[idx + 1])>>
          ELSE <<>>)
         \o EntriesFrom(array, idx + 1)

valid_entries(array) == EntriesFrom(array, 0)

\* source["source"].replace(entry["source"], entry["target"]) for every
\* entry of the dictionary, in its order
RECURSIVE apply_dict(_, _)
apply_dict(text, dict) ==
    IF dict = <<>> THEN text
    ELSE apply_dict(replace(text, Head(dict).source, Head(dict).target), Tail(dict))

\* the entries after the pre-translation dictionary was applied to them
pre_translated(texts, dict) ==
    [k \in 1..Len(texts) |-> [texts[k] EXCEPT !.source = apply_dict(@, dict)]]

\* an object that needs translation and one that has its translation
PendingObject == [source |-> <<"a">>]
TranslatedObject == [source |-> <<"a">>, target |-> <<"t">>]

\* the files of the loop: arrays of FileLen objects
LoopFiles == [1..FileLen -> {PendingObject, TranslatedObject}]

\* the file is read, the dictionary is applied to its entries, and the loop
\* is entered unless there is no entry to translate
FileInit(files, dicts) ==
    /\ endpoints \in {1..k : k \in 1..MaxEndpoints}
    /\ batch_size \in 1..MaxBatchSize
    /\ file_content \in files
    /\ pre_dict \in dicts
    /\ untranslated_texts = pre_translated(valid_entries(file_content), pre_dict)
    /\ pending = {untranslated_texts[k].index : k \in 1..Len(untranslated_texts)}
    /\ total_texts = Len(untranslated_texts)
    /\ translated_results = <<>>
    /\ dynamic_batch_size = batch_size
    /\ result_container = [w \in endpoints |-> <<[kind |-> "None"]>>]
    /\ processing_texts = [w \in endpoints |-> <<>>]
    /\ thread = [w \in endpoints |-> NoThread]
    /\ batch_result = [kind |-> "unset"]
    /\ pc = IF untranslated_texts = <<>> THEN "skipped" ELSE "for"
    /\ cursor = 1
    /\ data = <<>>
    /\ rewritten = FALSE

\* files without an entry to translate are skipped (if not untranslated_texts),
\* so the while condition holds when the loop is entered
Init ==
    /\ FileInit(LoopFiles, {<<>>})
    /\ untranslated_texts # <<>>
    /\ TextIdle
    /\ CallIdle
    /\ CoIdle
    /\ DispatchIdle
    /\ StreamIdle
    /\ BatchIdle
    /\ DegenIdle
    /\ MintIdle

\* the state of queue, done and batch size after the outcome was handled
handled(outcome, w) ==
    IF is_list(outcome)
    THEN [queue |-> untranslated_texts,
          done |-> integrate(translated_results, outcome.value),
          size |-> restored_size(batch_size, dynamic_batch_size)]
    ELSE IF is_translate_error(outcome)
    THEN [queue |-> release(untranslated_texts, processing_texts[w]),
          done |-> translated_results,
          size |-> IF outcome.exc = "TranslationCountError"
                   THEN halve(dynamic_batch_size)
                   ELSE dynamic_batch_size]
    ELSE [queue |-> untranslated_texts,
          done |-> translated_results,
          size |-> dynamic_batch_size]

Advance ==
    IF cursor = Cardinality(endpoints)
    THEN pc' = "sleep" /\ cursor' = 1
    ELSE pc' = "for" /\ cursor' = cursor + 1

\* one pass of the for loop over a worker whose container is empty: continue
VisitBusy(w) ==
    /\ pc = "for" /\ cursor = w
    /\ result_container[w] = <<>>
    /\ Advance
    /\ UNCHANGED <<config, untranslated_texts, translated_results,
                   dynamic_batch_size, result_container, processing_texts, thread,
                   batch_result>>
    /\ UNCHANGED beyond_loop

\* one pass of the for loop over a worker whose container holds an outcome,
\* under the worker's lock: handle it, clear the slot, start the next batch
VisitOutcome(w) ==
    /\ pc = "for" /\ cursor = w
    /\ result_container[w] # <<>>
    /\ batch_result' = result_container[w][1]
    /\ LET h == handled(result_container[w][1], w)
           text_to_translate == Take(h.queue, h.size)
       IN  /\ translated_results' = h.done
           /\ dynamic_batch_size' = h.size
           /\ result_container' = [result_container EXCEPT ![w] = cleared(@)]
           /\ IF h.queue # <<>>
              THEN /\ processing_texts' = [processing_texts EXCEPT ![w] = text_to_translate]
                   /\ thread' = [thread EXCEPT ![w] =
                                   [state |-> "running", source_texts |-> text_to_translate]]
                   /\ untranslated_texts' = Drop(h.queue, h.size)
              ELSE /\ processing_texts' = [processing_texts EXCEPT ![w] = <<>>]
                   /\ untranslated_texts' = h.queue
                   /\ UNCHANGED thread
           /\ handed' = IF handed # <<>> /\ h.queue # <<>>
                        THEN [handed EXCEPT ![w] =
                                [size |-> h.size,
                                 translation_history |-> history_window(h.done, history_size)]]
                        ELSE handed
           /\ retry_limit' =
                IF handed # <<>> /\ is_translate_error(result_container[w][1])
                   /\ result_container[w][1].exc = "TranslationCountError"
                THEN [i \in DOMAIN retry_limit |->
                        IF i \in {processing_texts[w][k].index : k \in 1..Len(processing_texts[w])}
                        THEN handed[w].size \div 2
                        ELSE retry_limit[i]]
                ELSE retry_limit
    /\ Advance
    /\ UNCHANGED <<config, history_size>>
    /\ UNCHANGED beyond_visit

\* time.sleep(1), then the while condition is tested again
Sleep ==
    /\ pc = "sleep"
    /\ pc' = IF loop_condition(translated_results, total_texts) THEN "for" ELSE "exit"
    /\ UNCHANGED <<config, cursor, untranslated_texts, translated_results,
                   dynamic_batch_size, result_container, processing_texts, thread,
                   batch_result>>
    /\ UNCHANGED beyond_loop

\* thread_wrapper: batch_translate returns or raises a TranslateError, and
\* the result is appended to the container under the worker's lock
ThreadPublish(w) ==
    /\ thread[w].state = "running"
    /\ \E r \in {batch_translate(thread[w].source_texts, api_response) :
                    api_response \in Replies} :
         /\ r.kind = "raise" => caught(r.exc)
         /\ result_container' = [result_container EXCEPT ![w] = Append(@, published(r))]
    /\ thread' = [thread EXCEPT ![w] = NoThread]
    /\ UNCHANGED <<config, pc, cursor, untranslated_texts, translated_results,
                   dynamic_batch_size, processing_texts, batch_result>>
    /\ UNCHANGED beyond_loop

\* thread_wrapper: ask_stream raises inside batch_translate; the exception is
\* no TranslateError, leaves thread_wrapper and ends the thread
ThreadRaise(w) ==
    /\ thread[w].state = "running"
    /\ \E exc \in TransportFailures : ~caught(exc)
    /\ thread' = [thread EXCEPT ![w] = [state |-> "crashed"]]
    /\ UNCHANGED <<config, pc, cursor, untranslated_texts, translated_results,
                   dynamic_batch_size, result_container, processing_texts,
                   batch_result>>
    /\ UNCHANGED beyond_loop

Next ==
    \/ \E w \in endpoints : VisitBusy(w)
    \/ \E w \in endpoints : VisitOutcome(w)
    \/ Sleep
    \/ \E w \in endpoints : ThreadRaise(w)
    \/ \E w \in endpoints : ThreadPublish(w)

Spec == Init /\ [][Next]_vars

\* Every HTTP call returns a complete reply, the dispatcher keeps running and
\* every started thread gets to publish: the loop sleeps one second and goes
\* on, and a thread that got its reply only has to take the worker's lock.
NextReplied ==
    \/ \E w \in endpoints : VisitBusy(w)
    \/ \E w \in endpoints : VisitOutcome(w)
    \/ Sleep
    \/ \E w \in endpoints : ThreadPublish(w)

Dispatcher == Sleep \/ \E w \in endpoints : VisitBusy(w) \/ VisitOutcome(w)

FairSpec ==
    /\ Init
    /\ [][NextReplied]_vars
    /\ WF_vars(Dispatcher)
    /\ \A w \in 1..MaxEndpoints : WF_vars(w \in endpoints /\ ThreadPublish(w))

\* the loop with its dispatches followed
MaxHistory == 1

DispatchFileLen == 3

DispatchInit ==
    /\ FileInit([1..DispatchFileLen -> {PendingObject, TranslatedObject}], {<<>>})
    /\ untranslated_texts # <<>>
    /\ history_size \in 0..MaxHistory
    /\ handed = [w \in endpoints |-> [size |-> 0, translation_history |-> <<>>]]
    /\ retry_limit = [i \in pending |-> 0]
    /\ TextIdle
    /\ CallIdle
    /\ CoIdle
    /\ StreamIdle
    /\ BatchIdle
    /\ DegenIdle
    /\ MintIdle

DispatchSpec == DispatchInit /\ [][Next]_vars

\* --------------------------------------- one call of batch_translate
\* the source of an entry has at most MaxSourceLen characters
MaxSourceLen == 3
\* a reply that does not follow the prompt has at most MaxLineLen characters
MaxLineLen == 4

\* no file is read
FileIdle ==
    /\ file_content = <<>>
    /\ pre_dict = <<>>
    /\ data = <<>>
    /\ rewritten = FALSE

\* no file is being translated
LoopIdle ==
    /\ endpoints = {}
    /\ batch_size = 0
    /\ total_texts = 0
    /\ pending = {}
    /\ untranslated_texts = <<>>
    /\ translated_results = <<>>
    /\ dynamic_batch_size = 0
    /\ result_container = <<>>
    /\ processing_texts = <<>>
    /\ thread = <<>>
    /\ batch_result = Unset
    /\ pc = "idle"
    /\ cursor = 0

\* characters a source is made of; one of them looks like a placeholder
SourceChars == {"a", LF, CR, OQ, CQ} \cup {placeholder_token("NL", 0)[1]}

\* the sources read_texts_to_translate lets through
Sources == {s \in TextsUpTo(SourceChars, MaxSourceLen) : ~is_blank(s)}

\* the batches of one entry, with and without a speaker
TextEntries ==
    {[index |-> 0, source |-> s] : s \in Sources}
    \cup {[index |-> 0, source |-> s, speaker |-> <<"s">>] : s \in Sources}

\* a line the model gives back for a line of the prompt: the same line, or
\* the line with its ordinary characters translated
translated_line(line) ==
    [i \in 1..Len(line) |-> IF line[i] = "a" THEN "b"
                            ELSE IF line[i] = "s" THEN "t"
                            ELSE line[i]]

\* what the stream can add up to. The model follows the prompt, or, for the
\* entries whose source is one ordinary character, gives back any text of
\* speaker name, brackets and placeholders.
TextReplies(text_entry, line, tokens) ==
    {line, translated_line(line)}
    \cup (IF text_entry.source = <<"a">>
          THEN TextsUpTo({"s", OQ, CQ, tokens.newline_token[1],
                          tokens.quote_start_token[1], tokens.quote_end_token[1]},
                         MaxLineLen)
          ELSE {})

\* final_results with the text of every result
text_results(source_texts, lines, tokens) ==
    LET n == IF Len(source_texts) < Len(lines) THEN Len(source_texts) ELSE Len(lines)
    IN  [k \in 1..n |-> result_entry(source_texts[k], lines[k], tokens)]

TextInit ==
    /\ bt_pc = "mint"
    /\ entry \in TextEntries
    /\ minted = Unset
    /\ input_line = <<>>
    /\ reply = <<>>
    /\ returned = Unset
    /\ LoopIdle
    /\ FileIdle
    /\ CallIdle
    /\ CoIdle
    /\ DispatchIdle
    /\ StreamIdle
    /\ BatchIdle
    /\ DegenIdle
    /\ MintIdle

\* the three placeholders are minted against the sources of the batch
Mint ==
    /\ bt_pc = "mint"
    /\ LET original_text_sample == entry.source
       IN  \E nl \in generate_placeholder_token("NL", original_text_sample),
              qs \in generate_placeholder_token("QS", original_text_sample),
              qe \in generate_placeholder_token("QE", original_text_sample) :
             IF nl.kind = "return" /\ qs.kind = "return" /\ qe.kind = "return"
             THEN /\ minted' = [newline_token |-> nl.value,
                                quote_start_token |-> qs.value,
                                quote_end_token |-> qe.value]
                  /\ bt_pc' = "prompt"
                  /\ UNCHANGED returned
             ELSE /\ returned' = [kind |-> "raise", exc |-> "RuntimeError"]
                  /\ bt_pc' = "raised"
                  /\ UNCHANGED minted
    /\ UNCHANGED <<entry, input_line, reply, beyond_text>>

\* the entry becomes its line of the prompt
Assemble ==
    /\ bt_pc = "prompt"
    /\ input_line' = processed_text(entry, minted)
    /\ bt_pc' = "ask"
    /\ UNCHANGED <<entry, minted, reply, returned, beyond_text>>

\* the stream ends; the reply is validated and the result is built
Answer ==
    /\ bt_pc = "ask"
    /\ \E api_response \in TextReplies(entry, input_line, minted) :
         /\ reply' = api_response
         /\ returned' = [kind |-> "return",
                         value |-> text_results(<<entry>>,
                                                response_lines(<<entry>>, api_response),
                                                minted)]
    /\ bt_pc' = "returned"
    /\ UNCHANGED <<entry, minted, input_line, beyond_text>>

\* ask_stream raises
AskRaise ==
    /\ bt_pc = "ask"
    /\ \E exc \in TransportFailures :
         returned' = [kind |-> "raise", exc |-> exc]
    /\ bt_pc' = "raised"
    /\ UNCHANGED <<entry, minted, input_line, reply, beyond_text>>

TextNext == Mint \/ Assemble \/ Answer \/ AskRaise

TextSpec == TextInit /\ [][TextNext]_vars

\* ------------------------------------------------ the driver of one file
\* length of the longest work file of the driver
DriverFileLen == 2

\* objects of a work file: to translate, with a field the tool does not
\* know; with an empty target; with a blank source
NotedObject == [source |-> <<"a">>, note |-> <<"n">>]
EmptyTargetObject == [source |-> <<"a">>, target |-> <<>>]
BlankObject == [source |-> <<LF>>]

FileObjects == {NotedObject, TranslatedObject, EmptyTargetObject, BlankObject}

DriverFiles == TextsUpTo(FileObjects, DriverFileLen)

\* no dictionary, or the one line a->b
PreDicts == {<<>>, <<[source |-> <<"a">>, target |-> <<"b">>]>>}

DriverInit ==
    /\ FileInit(DriverFiles, PreDicts)
    /\ TextIdle
    /\ CallIdle
    /\ CoIdle
    /\ DispatchIdle
    /\ StreamIdle
    /\ BatchIdle
    /\ DegenIdle
    /\ MintIdle

\* {k: v for k, v in entry.items() if k != "index"}
without_index(e) == [k \in DOMAIN e \ {"index"} |-> e[k]]

\* mutant: the result is merged into the first object
merge_at_first(array, e) ==
    [array EXCEPT ![1] = update(@, without_index(e))]

\* data[entry["index"]].update(...)
merge_at(array, e) ==
    [array EXCEPT ![e.index + 1] = update(@, without_index(e))]

\* the array after the update for every entry of the results
RECURSIVE merged(_, _)
merged(array, results) ==
    IF results = <<>> THEN array
    ELSE merged(merge_at(array, Head(results)), Tail(results))

\* after the loop the file is read again, the results are merged into its
\* array and the array is written to the file
WriteBack ==
    /\ pc = "exit"
    /\ data' = merged(file_content, translated_results)
    /\ rewritten' = TRUE
    /\ pc' = "written"
    /\ UNCHANGED <<config, untranslated_texts, translated_results, dynamic_batch_size,
                   result_container, processing_texts, thread, batch_result, cursor,
                   file_content, pre_dict, beyond_file>>

\* KeyboardInterrupt in the main thread during the loop: nothing catches
\* it, the process ends and its daemon threads with it
Interrupt ==
    /\ pc \in {"for", "sleep"}
    /\ pc' = "interrupted"
    /\ thread' = [w \in endpoints |-> NoThread]
    /\ UNCHANGED <<config, untranslated_texts, translated_results, dynamic_batch_size,
                   result_container, processing_texts, batch_result, cursor,
                   file_vars, beyond_file>>

DriverNext == Next \/ WriteBack \/ Interrupt

DriverSpec == DriverInit /\ [][DriverNext]_vars

\* ------------------------------------------- the arguments of the calls
\* most chunks of one reply
MaxChunks == 2

None == "None"

\* values of --timeout and of --proxy, as written on the command line
Timeouts == {"30", "5"}
Proxies == {None, "http://proxy"}

Chunks == {"a", "b"}

\* mutant: the flag is kept whatever the number of endpoints
effective_stream_output_kept(flag, n) == flag

\* stream_output as main computes it from --stream-output and the endpoints
effective_stream_output(flag, n) == IF flag /\ n > 1 THEN FALSE ELSE flag

\* the keyword arguments of the thread main starts for a batch
thread_kwargs ==
    [stream_output |-> stream_output, timeout |-> args.timeout, proxy |-> args.proxy]

\* the parameters of ask_stream, in the order of its signature
ask_stream_parameters ==
    <<"api", "prompt", "temperature", "top_p", "presence_penalty",
      "frequency_penalty", "timeout", "proxy">>

\* the positional arguments batch_translate calls ask_stream with
ask_stream_arguments(endpoint, kwargs) ==
    <<ToString(endpoint), "final_prompt", "temperature", "top_p", "presence_penalty",
      "frequency_penalty", kwargs.proxy, kwargs.timeout>>

\* Python binds positional arguments to the parameters in order
bind(parameters, values) ==
    [name \in {parameters[i] : i \in 1..Len(values)} |->
        values[CHOOSE i \in 1..Len(values) : parameters[i] = name]]

\* what ask_stream hands to httpx.stream
http_request(bound) == [proxy |-> bound.proxy, timeout |-> bound.timeout]

\* the command line is parsed and stream_output is settled
CallInit ==
    /\ args \in [timeout : Timeouts, proxy : Proxies, stream_output : BOOLEAN,
                  endpoints : {1..k : k \in 1..MaxEndpoints}]
    /\ stream_output = effective_stream_output(args.stream_output,
                                               Cardinality(args.endpoints))
    /\ calls = [w \in args.endpoints |-> [state |-> "none"]]
    /\ printed = <<>>
    /\ LoopIdle
    /\ FileIdle
    /\ TextIdle
    /\ CoIdle
    /\ DispatchIdle
    /\ StreamIdle
    /\ BatchIdle
    /\ DegenIdle
    /\ MintIdle

\* main starts the thread of a batch for endpoint w
StartThread(w) ==
    /\ calls[w].state = "none"
    /\ calls' = [calls EXCEPT ![w] = [state |-> "called", kwargs |-> thread_kwargs]]
    /\ UNCHANGED <<args, stream_output, printed, beyond_call>>

\* batch_translate calls ask_stream, which opens the request
AskStream(w) ==
    /\ calls[w].state = "called"
    /\ calls' = [calls EXCEPT ![w] =
           [state |-> "streaming",
            kwargs |-> @.kwargs,
            request |-> http_request(bind(ask_stream_parameters,
                                          ask_stream_arguments(w, @.kwargs))),
            api_response |-> <<>>]]
    /\ UNCHANGED <<args, stream_output, printed, beyond_call>>

\* a chunk of the reply arrives: it is added to api_response and printed
\* if stream_output
Chunk(w) ==
    /\ calls[w].state = "streaming"
    /\ Len(calls[w].api_response) < MaxChunks
    /\ \E response_chunk \in Chunks :
          /\ calls' = [calls EXCEPT ![w].api_response = Append(@, response_chunk)]
          /\ printed' = IF calls[w].kwargs.stream_output
                        THEN Append(printed, response_chunk)
                        ELSE printed
    /\ UNCHANGED <<args, stream_output, beyond_call>>

\* the stream ends: the line is closed if stream_output
EndOfStream(w) ==
    /\ calls[w].state = "streaming"
    /\ calls' = [calls EXCEPT ![w].state = "streamed"]
    /\ printed' = IF calls[w].kwargs.stream_output THEN Append(printed, LF) ELSE printed
    /\ UNCHANGED <<args, stream_output, beyond_call>>

CallNext ==
    \E w \in args.endpoints :
        StartThread(w) \/ AskStream(w) \/ Chunk(w) \/ EndOfStream(w)

CallSpec == CallInit /\ [][CallNext]_vars

\* ------------------------------------------ the coroutine generation
\* most messages of a file
MaxMessages == 2

\* the times frequency_penalty < 0.8 holds while 0.1 is added to it from 0:
\* the sum of eight 0.1 is 0.7999999999999999
PenaltyRaises == 9

Translators == {"A", "B"}

\* values of number_per_request_translate
PerRequest == {1, 2}

\* the text every translation has
Translation == "t"

\* Message.from_input for the messages of a file
MessageKinds == [source : {"a", ""}, original_speaker : {None, "s"}]

RECURSIVE MessageLists(_)
MessageLists(n) ==
    IF n = 0 THEN {<<>>}
    ELSE LET shorter == MessageLists(n - 1)
         IN  shorter \cup
             {Append(l, [index |-> Len(l), source |-> k.source,
                         original_speaker |-> k.original_speaker,
                         translation |-> None, translating |-> FALSE]) :
                 l \in {x \in shorter : Len(x) = n - 1}, k \in MessageKinds}

\* the key of a message in the cache
cache_key(msg) == <<msg.source, msg.original_speaker>>

\* the for loop of get_messages from position k on: the messages after it
\* and the indices taken
RECURSIVE Scan(_, _, _, _, _, _)
Scan(msgs, k, taken, n, exclude, cached) ==
    IF k > Len(msgs) \/ Len(taken) >= n
    THEN [messages |-> msgs, taken |-> taken]
    ELSE LET msg == msgs[k]
             on == Scan(msgs, k + 1, taken, n, exclude, cached)
             translated(m, text) ==
                 Scan([m EXCEPT ![k].translation = text], k + 1, taken, n, exclude, cached)
             cached_or_taken(m) ==
                 IF cache_key(msg) \in cached
                 THEN translated(m, Translation)
                 ELSE Scan([m EXCEPT ![k].translating = TRUE], k + 1,
                           Append(taken, msg.index), n, exclude, cached)
         IN  IF msg.translation # None \/ msg.translating THEN on
             ELSE IF cache_key(msg) \in
                         {cache_key(msgs[j]) : j \in {i \in 1..Len(msgs) : msgs[i].translating}}
             THEN on
             ELSE IF msg.source = ""
             THEN IF msg.original_speaker # None
                  THEN cached_or_taken([msgs EXCEPT ![k].translation = ""])
                  ELSE translated(msgs, "")
             ELSE IF msg.index \in exclude THEN on
             ELSE cached_or_taken(msgs)

\* the set get_messages is given as exclude: the translator's own
exclude_of(name) == translators[name].excluded_messages

\* the messages with translating cleared at the indices
released(msgs, indices) ==
    [k \in 1..Len(msgs) |->
        IF msgs[k].index \in indices THEN [msgs[k] EXCEPT !.translating = FALSE]
        ELSE msgs[k]]

\* the messages with the translation committed at the indices
committed(msgs, indices) ==
    [k \in 1..Len(msgs) |->
        IF msgs[k].index \in indices
        THEN [msgs[k] EXCEPT !.translation = Translation, !.translating = FALSE]
        ELSE msgs[k]]

Range(q) == {q[k] : k \in 1..Len(q)}

CoInit ==
    /\ messages \in {l \in MessageLists(MaxMessages) : l # <<>>}
    /\ cache = {}
    /\ translators \in [Translators ->
           [pc : {"get"}, number_per_request_translate : PerRequest,
            messages_to_translate : {<<>>}, excluded_messages : {{}},
            frequency_penalty : {0}]]
    /\ LoopIdle
    /\ FileIdle
    /\ TextIdle
    /\ CallIdle
    /\ DispatchIdle
    /\ StreamIdle
    /\ BatchIdle
    /\ DegenIdle
    /\ MintIdle

\* get_messages: a batch is taken and the inner loop is entered, or there
\* is nothing to take and the translator waits a second while some message
\* is being translated, and returns otherwise
GetMessages(name) ==
    /\ translators[name].pc = "get"
    /\ LET got == Scan(messages, 1, <<>>, translators[name].number_per_request_translate,
                       exclude_of(name), cache)
       IN  /\ messages' = got.messages
           /\ translators' = [translators EXCEPT ![name] =
                  [@ EXCEPT !.messages_to_translate = got.taken,
                            !.frequency_penalty = 0,
                            !.pc = IF got.taken # <<>> THEN "request"
                                   ELSE IF \E k \in 1..Len(got.messages) :
                                               got.messages[k].translating
                                   THEN "get"
                                   ELSE "returned"]]
    /\ UNCHANGED <<cache, beyond_co>>

\* the reply passes every test: the translations are committed and cached
Succeed(name) ==
    /\ translators[name].pc = "request"
    /\ LET batch == Range(translators[name].messages_to_translate)
       IN  /\ messages' = committed(messages, batch)
           /\ cache' = cache \cup
                  {cache_key(messages[k]) : k \in {i \in 1..Len(messages) :
                                                       messages[i].index \in batch}}
    /\ translators' = [translators EXCEPT ![name].pc = "get",
                                          ![name].frequency_penalty = 0]
    /\ UNCHANGED beyond_co

\* mutant: the batch of several is kept whole
HalfMessages_whole(name, penalty) ==
    LET batch == translators[name].messages_to_translate
    IN  IF Len(batch) > 1
        THEN /\ messages' = messages
             /\ translators' = [translators EXCEPT ![name].frequency_penalty = penalty]
        ELSE /\ messages' = released(messages, {batch[1]})
             /\ translators' = [translators EXCEPT ![name] =
                    [@ EXCEPT !.excluded_messages = @ \cup {batch[1]},
                              !.frequency_penalty = 0,
                              !.pc = "get"]]

\* _half_messages: the first half of a batch of several is released and
\* the rest is tried again; a batch of one is excluded and released, and
\* the translator goes for other messages.  The penalty is the one the
\* caller left; it is read in the inner loop only, which sets it to 0
\* first, and is kept at 0 outside of it.
HalfMessages(name, penalty) ==
    LET batch == translators[name].messages_to_translate
        half == Len(batch) \div 2
    IN  IF Len(batch) > 1
        THEN /\ messages' = released(messages, Range(SubSeq(batch, 1, half)))
             /\ translators' = [translators EXCEPT ![name] =
                    [@ EXCEPT !.messages_to_translate = SubSeq(batch, half + 1, Len(batch)),
                              !.frequency_penalty = penalty]]
        ELSE /\ messages' = released(messages, {batch[1]})
             /\ translators' = [translators EXCEPT ![name] =
                    [@ EXCEPT !.excluded_messages = @ \cup {batch[1]},
                              !.frequency_penalty = 0,
                              !.pc = "get"]]

\* the reply degenerates (repeats itself or is too long): the request is
\* tried again with a higher frequency_penalty, and with the penalty at
\* its limit the penalty is reset and the batch is halved
Degenerate(name) ==
    /\ translators[name].pc = "request"
    /\ IF translators[name].frequency_penalty < PenaltyRaises
       THEN /\ translators' = [translators EXCEPT ![name].frequency_penalty = @ + 1]
            /\ UNCHANGED messages
       ELSE HalfMessages(name, 0)
    /\ UNCHANGED <<cache, beyond_co>>

\* the reply has an empty line or not the lines of the request
BadLines(name) ==
    /\ translators[name].pc = "request"
    /\ HalfMessages(name, translators[name].frequency_penalty)
    /\ UNCHANGED <<cache, beyond_co>>

\* the request fails and the restart of the server fails too: the
\* coroutine ends
Fatal(name) ==
    /\ translators[name].pc = "request"
    /\ translators' = [translators EXCEPT ![name].pc = "ended",
                                          ![name].frequency_penalty = 0]
    /\ UNCHANGED <<messages, cache, beyond_co>>

\* a data line that json.loads cannot parse, or a frame without the key
\* finish_reason: the exception is neither HTTPError nor RuntimeError and
\* leaves the coroutine
ParseRaise(name) ==
    /\ translators[name].pc = "request"
    /\ translators' = [translators EXCEPT ![name].pc = "raised",
                                          ![name].frequency_penalty = 0]
    /\ UNCHANGED <<messages, cache, beyond_co>>

\* a response that is not 200 and a failed request without restart_api, or
\* with a restart that answers ok, are waited out and the same request is
\* made again: nothing changes
CoNext ==
    \E name \in Translators :
        \/ GetMessages(name)
        \/ Succeed(name)
        \/ Degenerate(name)
        \/ BadLines(name)
        \/ Fatal(name)
        \/ ParseRaise(name)

CoSpec == CoInit /\ [][CoNext]_vars

\* the server whose every reply degenerates
DegenerateNext ==
    \E name \in Translators :
        \/ GetMessages(name)
        \/ Degenerate(name)

\* every coroutine of asyncio.gather is resumed when what it awaits is done,
\* and the server answers every request
DegenerateSpec ==
    /\ CoInit
    /\ [][DegenerateNext]_vars
    /\ \A name \in Translators :
          WF_vars(GetMessages(name) \/ Degenerate(name))

\* ------------------------------------------------- the streaming client
\* The body of a 200 response as response.iter_lines() gives it. A line is
\* empty, or "data: " followed by a payload: the text [DONE], or a JSON
\* object with choices[0], whose finish_reason is absent, null or "stop"
\* and whose delta has no content, the empty content or the content "a".
EmptyLine == [kind |-> "empty"]

\* number of lines of the body of a response is 0 .. MaxLines
MaxLines == 3

DoneLine == [kind |-> "data", payload |-> [json |-> FALSE, text |-> "[DONE]"]]

Frame(finish_reason, content) ==
    [kind |-> "data",
     payload |-> [json |-> TRUE, finish_reason |-> finish_reason,
                  content |-> content]]

Frames == {Frame(f, c) : f \in {"absent", "null", "stop"},
                         c \in {"absent", "", "a"}}

ResponseLines == {EmptyLine, DoneLine} \cup Frames

Responses == UNION {[1..n -> ResponseLines] : n \in 0..MaxLines}

\* if not line
is_empty_line(l) == l.kind = "empty"

\* line[6:]
without_prefix(l) == l.payload

\* orjson.loads(line) returns: the payload is JSON
loads_ok(payload) == payload.json

\* choice.get("finish_reason") is truthy
finished(payload) == payload.finish_reason \notin {"absent", "null", ""}

\* delta.get("content") is truthy
has_content(payload) == payload.content \notin {"absent", ""}

StreamInit ==
    /\ response \in Responses
    /\ line_no = 0
    /\ fragments = <<>>
    /\ stream_pc = "iter"
    /\ LoopIdle
    /\ FileIdle
    /\ TextIdle
    /\ CallIdle
    /\ CoIdle
    /\ DispatchIdle
    /\ BatchIdle
    /\ DegenIdle
    /\ MintIdle

\* the line the for loop takes next
next_line == response[line_no + 1]

TakesLine == stream_pc = "iter" /\ line_no < Len(response)

\* if not line: continue
SkipEmptyLine ==
    /\ TakesLine
    /\ is_empty_line(next_line)
    /\ line_no' = line_no + 1
    /\ UNCHANGED <<response, fragments, stream_pc, beyond_stream>>

\* orjson.loads raises JSONDecodeError, which leaves the generator
LoadsRaise ==
    /\ TakesLine
    /\ ~is_empty_line(next_line)
    /\ ~loads_ok(without_prefix(next_line))
    /\ line_no' = line_no + 1
    /\ stream_pc' = "raised"
    /\ UNCHANGED <<response, fragments, beyond_stream>>

\* if choice.get("finish_reason"): response.close(); break
FinishReason ==
    /\ TakesLine
    /\ ~is_empty_line(next_line)
    /\ loads_ok(without_prefix(next_line))
    /\ finished(without_prefix(next_line))
    /\ line_no' = line_no + 1
    /\ stream_pc' = "closed"
    /\ UNCHANGED <<response, fragments, beyond_stream>>

\* if delta.get("content"): yield delta["content"]
Delta ==
    /\ TakesLine
    /\ ~is_empty_line(next_line)
    /\ loads_ok(without_prefix(next_line))
    /\ ~finished(without_prefix(next_line))
    /\ line_no' = line_no + 1
    /\ fragments' = IF has_content(without_prefix(next_line))
                    THEN Append(fragments, without_prefix(next_line).content)
                    ELSE fragments
    /\ UNCHANGED <<response, stream_pc, beyond_stream>>

\* iter_lines() has no more lines
Exhausted ==
    /\ stream_pc = "iter"
    /\ line_no = Len(response)
    /\ stream_pc' = "exhausted"
    /\ UNCHANGED <<response, line_no, fragments, beyond_stream>>

StreamNext == SkipEmptyLine \/ LoadsRaise \/ FinishReason \/ Delta \/ Exhausted

StreamSpec == StreamInit /\ [][StreamNext]_vars

\* ------------------------------------------ the validation of a reply
\* number of entries of the batch is 1 .. MaxBatch
MaxBatch == 3

\* number of characters of the accumulated reply is 0 .. MaxResponseLen
MaxResponseLen == 3

\* the batches: entries 0 .. n-1 of a file, each with the source a
Batches == {[k \in 1..n |-> [index |-> k - 1, source |-> <<"a">>]] :
               n \in 1..MaxBatch}

BatchInit ==
    /\ batch_sources \in Batches
    /\ batch_response \in TextsUpTo(ReplyChars, MaxResponseLen)
    /\ batch_outcome = Unset
    /\ LoopIdle
    /\ FileIdle
    /\ TextIdle
    /\ CallIdle
    /\ CoIdle
    /\ DispatchIdle
    /\ StreamIdle
    /\ DegenIdle
    /\ MintIdle

\* the stream has ended: the reply is validated and the results are built
Validate ==
    /\ batch_outcome = Unset
    /\ batch_outcome' = batch_translate(batch_sources, batch_response)
    /\ UNCHANGED <<batch_sources, batch_response, beyond_batch>>

BatchSpec == BatchInit /\ [][Validate]_vars

\* ------------------------------------------------ the repetition detector
\* number of characters of the buffer is 0 .. MaxBufferLen
MaxBufferLen == 6

\* max_repetition_cnt is 1 .. MaxThreshold
MaxThreshold == 2

\* characters of the buffer
BufferChars == {"a", "b"}

\* resp[-length:], for 1 <= length <= len(resp)
suffix(resp, length) == SubSeq(resp, Len(resp) - length + 1, Len(resp))

\* resp[start:].startswith(txt), start counted from 0
startswith_at(resp, start, txt) ==
    /\ start + Len(txt) <= Len(resp)
    /\ SubSeq(resp, start + 1, start + Len(txt)) = txt

RECURSIVE scan(_, _, _, _, _)
\* the while loop: TRUE when it returns True, FALSE when it runs out
scan(resp, txt, start, repetition_cnt, max_repetition_cnt) ==
    IF ~(start < Len(resp)) THEN FALSE
    ELSE LET hit == startswith_at(resp, start, txt)
             cnt == IF hit THEN repetition_cnt + 1 ELSE 0
         IN  IF cnt >= max_repetition_cnt THEN TRUE
             ELSE scan(resp, txt, IF hit THEN start + Len(txt) ELSE start + 1,
                       cnt, max_repetition_cnt)

\* for length in range(1, len(resp) // max_repetition_cnt)
check_degen(resp, max_repetition_cnt) ==
    \E length \in 1..((Len(resp) \div max_repetition_cnt) - 1) :
        scan(resp, suffix(resp, length), 0, 0, max_repetition_cnt)

DegenInit ==
    /\ degen_resp \in TextsUpTo(BufferChars, MaxBufferLen)
    /\ degen_threshold \in 1..MaxThreshold
    /\ degen_report = Unset
    /\ LoopIdle
    /\ FileIdle
    /\ TextIdle
    /\ CallIdle
    /\ CoIdle
    /\ DispatchIdle
    /\ StreamIdle
    /\ BatchIdle
    /\ MintIdle

CheckDegen ==
    /\ degen_report = Unset
    /\ degen_report' = [kind |-> "return",
                        value |-> check_degen(degen_resp, degen_threshold)]
    /\ UNCHANGED <<degen_resp, degen_threshold, beyond_degen>>

DegenSpec == DegenInit /\ [][CheckDegen]_vars

\* ------------------------------------------ the minting of placeholders
\* max_attempts = 10
max_attempts == 10

\* number of characters of a source is 1 .. MaxMintLen
MaxMintLen == 2

\* the bases of the three calls, in their order
Bases == <<"NL", "QS", "QE">>

\* characters of a source: an ordinary one and three that look like
\* placeholders
MintChars == {"a", placeholder_token("NL", 0)[1], placeholder_token("NL", 1)[1],
              placeholder_token("QS", 0)[1]}

\* the batches: one source or two
MintBatches ==
    LET sources == TextsUpTo(MintChars, MaxMintLen) \ {<<>>}
    IN  {<<a>> : a \in sources} \cup {<<a, b>> : a, b \in sources}

RECURSIVE joined(_)
\* "\n".join(entry["source"] for entry in source_texts)
joined(sources) ==
    IF Len(sources) = 1 THEN sources[1]
    ELSE sources[1] \o <<LF>> \o joined(Tail(sources))

\* mutant: every token passes
not_in_unchecked(token, text) == TRUE

\* token not in text
not_in(token, text) == ~contains(text, token)

MintInit ==
    /\ mint_sources \in MintBatches
    /\ mint_tokens = <<>>
    /\ mint_attempts = 0
    /\ mint_pc = Bases[1]
    /\ LoopIdle
    /\ FileIdle
    /\ TextIdle
    /\ CallIdle
    /\ CoIdle
    /\ DispatchIdle
    /\ StreamIdle
    /\ BatchIdle
    /\ DegenIdle

Minting == mint_pc \in {Bases[k] : k \in 1..Len(Bases)}

\* an attempt draws a token that is in the text; the last attempt of the
\* range leaves the loop and the call raises RuntimeError
Collide ==
    /\ Minting
    /\ \E r \in 0..RandomMax :
         ~not_in(placeholder_token(mint_pc, r), joined(mint_sources))
    /\ mint_attempts' = mint_attempts + 1
    /\ mint_pc' = IF mint_attempts + 1 = max_attempts THEN "raised" ELSE mint_pc
    /\ UNCHANGED <<mint_sources, mint_tokens, beyond_mint>>

\* an attempt draws a token that is not in the text: the call returns it
\* and batch_translate goes on to the next base
ReturnToken ==
    /\ Minting
    /\ \E r \in 0..RandomMax :
         /\ not_in(placeholder_token(mint_pc, r), joined(mint_sources))
         /\ mint_tokens' = Append(mint_tokens, placeholder_token(mint_pc, r))
    /\ mint_attempts' = 0
    /\ mint_pc' = IF Len(mint_tokens) + 1 < Len(Bases)
                  THEN Bases[Len(mint_tokens) + 2] ELSE "done"
    /\ UNCHANGED <<mint_sources, beyond_mint>>

MintNext == Collide \/ ReturnToken

MintSpec == MintInit /\ [][MintNext]_vars

\* ------------------------------------------------------------------ claims
Indices(s) == {s[k].index : k \in 1..Len(s)}

RECURSIVE InFlightOf(_)
InFlightOf(workers) ==
    IF workers = {} THEN 0
    ELSE LET w == CHOOSE x \in workers : TRUE
         IN  Len(processing_texts[w]) + InFlightOf(workers \ {w})

\* the entries in flight across all workers
InFlight == InFlightOf(endpoints)

\* the step is one of the dispatcher
DispatcherStepped == <<pc, cursor>>' # <<pc, cursor>>

\* C1: in every state of the per-file loop the entries in the queue, the
\* entries in flight across all workers and the entries in done add up to the
\* number of entries that were pending when the file was read.
C1_Conservation ==
    Len(untranslated_texts) + InFlight + Len(translated_results) = total_texts

\* a failed batch was returned and halved, another batch was integrated, and
\* entries are in the queue, in flight and in done at once
C1_Witness ==
    /\ Cardinality(endpoints) = 2
    /\ dynamic_batch_size < batch_size
    /\ untranslated_texts # <<>>
    /\ translated_results # <<>>
    /\ InFlight > 0

\* C2: when the loop exits, done holds as many entries as were pending and
\* its indices are exactly the indices of the pending entries; this
\* generation excludes no entry, so the excluded set is empty.
C2_ExitComplete ==
    pc = "exit" =>
        /\ Len(translated_results) = Cardinality(pending)
        /\ Indices(translated_results) = pending
        /\ untranslated_texts = <<>>
        /\ InFlight = 0

\* the loop of a file with four pending entries and two endpoints has exited
C2_Witness ==
    /\ pc = "exit"
    /\ Cardinality(endpoints) = 2
    /\ Cardinality(pending) = FileLen
    /\ batch_size = 2

\* C3: the in-flight batches of two different workers never share an entry,
\* also after a batch was returned to the queue and dispatched again.
C3_Disjoint ==
    \A w1 \in endpoints : \A w2 \in endpoints \ {w1} :
        /\ Indices(processing_texts[w1]) \cap Indices(processing_texts[w2]) = {}
        /\ thread[w1].state = "running" /\ thread[w2].state = "running"
             => Indices(thread[w1].source_texts) \cap Indices(thread[w2].source_texts) = {}

\* both workers hold a batch, one of them dispatched after a count mismatch
\* returned its entries to the queue
C3_Witness ==
    /\ batch_result.kind = "error"
    /\ dynamic_batch_size < batch_size
    /\ \E w1 \in endpoints : \E w2 \in endpoints \ {w1} :
         /\ processing_texts[w1] # <<>>
         /\ processing_texts[w2] # <<>>

\* C4: done is sorted strictly ascending by index in every state between
\* two steps of the dispatcher, so no index occurs twice in it.
C4_Sorted ==
    \A k \in 1..(Len(translated_results) - 1) :
        translated_results[k].index < translated_results[k + 1].index

\* the results integrated last have lower indices than results integrated
\* before them: the workers finished out of order
C4_Witness ==
    /\ batch_result.kind = "list"
    /\ batch_result.value # <<>>
    /\ Indices(batch_result.value) \subseteq Indices(translated_results)
    /\ \E d \in Indices(translated_results) \ Indices(batch_result.value) :
         \A i \in Indices(batch_result.value) : i < d

\* C5: a reply to a batch of more than one entry whose number of lines
\* differs from the number of entries makes batch_translate raise
\* TranslationCountError without a result; the dispatcher, picking that
\* outcome up, adds nothing to done, halves the batch size and returns the
\* entries of the batch to the queue, from whose head the worker's next batch
\* is taken in the same pass.
C5_CountMismatchRequeued ==
    [][ /\ \A w \in endpoints :
             thread[w].state = "running" /\ Len(thread[w].source_texts) > 1 =>
               \A api_response \in Replies :
                 Len(splitlines(api_response)) # Len(thread[w].source_texts) =>
                   LET r == batch_translate(thread[w].source_texts, api_response)
                   IN  r.kind = "raise" /\ r.exc = "TranslationCountError"
        /\ \A w \in endpoints :
             ( /\ pc = "for" /\ cursor = w /\ DispatcherStepped
               /\ result_container[w] # <<>>
               /\ result_container[w][1].kind = "error"
               /\ result_container[w][1].exc = "TranslationCountError" )
             => /\ translated_results' = translated_results
                /\ dynamic_batch_size' = dynamic_batch_size \div 2
                /\ Indices(untranslated_texts') \cup Indices(processing_texts'[w])
                     = Indices(untranslated_texts) \cup Indices(processing_texts[w])
                /\ Len(untranslated_texts') + Len(processing_texts'[w])
                     = Len(untranslated_texts) + Len(processing_texts[w])
                /\ Indices(processing_texts[w]) \cap Indices(translated_results') = {}
      ]_vars

\* a batch of more than one entry came back with another number of lines and
\* was picked up: nothing is in done, the size is halved, entries are queued
C5_Witness ==
    /\ batch_result.kind = "error"
    /\ batch_result.exc = "TranslationCountError"
    /\ batch_result.sources_count > 1
    /\ batch_result.targets_count # batch_result.sources_count
    /\ dynamic_batch_size = 1
    /\ batch_size = 2
    /\ translated_results = <<>>
    /\ untranslated_texts # <<>>

\* C6: the dynamic batch size never falls below 1.
C6_BatchSizeAtLeastOne == dynamic_batch_size >= 1

\* C7: a request that fails with a transport failure leaves an outcome on the
\* worker's slot: no worker holds a batch in flight with its thread ended and
\* nothing for the dispatcher to pick up.
C7_TransportFailurePublished ==
    \A w \in endpoints :
        thread[w].state # "running" /\ processing_texts[w] # <<>>
            => result_container[w] # <<>>

\* the slot of a worker is free: no request runs, no batch is assigned and
\* no outcome of a request waits to be picked up
Free(w) ==
    /\ thread[w].state = "none"
    /\ processing_texts[w] = <<>>
    /\ result_container[w] = <<>> \/ result_container[w][1].kind = "None"

\* C8: in every pass the dispatcher starts a request for each worker whose
\* slot is free when it visits the worker and the queue is not empty.
C8_FreeWorkerGetsWork ==
    [][ \A w \in endpoints :
          ( /\ pc = "for" /\ cursor = w /\ DispatcherStepped
            /\ Free(w)
            /\ untranslated_texts # <<>> )
          => thread'[w].state = "running"
      ]_vars

\* C9: with every request answered by a complete reply and fair scheduling
\* of the dispatcher and the threads, the loop of the file eventually exits.
C9_Terminates == <>(pc = "exit")

\* C10: a batch of one entry never fails with a count mismatch: for every
\* reply batch_translate returns exactly one result, the one of the entry,
\* whose target is the reply with all LF removed when the reply does not
\* have exactly one line; the outcome on the slot is a list with that entry,
\* and once picked up the entry is in done and neither queued nor in flight.
C10_SingleEntryRecovered ==
    /\ \A w \in endpoints :
         thread[w].state = "running" /\ Len(thread[w].source_texts) = 1 =>
           \A api_response \in Replies :
             LET r == batch_translate(thread[w].source_texts, api_response)
             IN  /\ r.kind = "return"
                 /\ Len(r.value) = 1
                 /\ r.value[1].index = thread[w].source_texts[1].index
                 /\ Len(splitlines(api_response)) # 1
                      => r.value[1].target = SelectSeq(api_response, LAMBDA c : c # LF)
    /\ \A w \in endpoints :
         Len(processing_texts[w]) = 1 /\ result_container[w] # <<>> =>
           /\ result_container[w][1].kind = "list"
           /\ Len(result_container[w][1].value) = 1
           /\ result_container[w][1].value[1].index = processing_texts[w][1].index
    /\ batch_result.kind = "list" =>
           /\ Indices(batch_result.value) \subseteq Indices(translated_results)
           /\ Indices(batch_result.value) \cap Indices(untranslated_texts) = {}
           /\ \A w \in endpoints :
                Indices(batch_result.value) \cap Indices(processing_texts[w]) = {}

\* the outcome of a batch of one entry was picked up as a list while other
\* entries are still to do: the entry is in done and nowhere else
C10_Witness ==
    /\ batch_result.kind = "list"
    /\ Len(batch_result.value) = 1
    /\ batch_size = 2
    /\ translated_results = batch_result.value
    /\ Indices(batch_result.value) \cap Indices(untranslated_texts) = {}
    /\ Cardinality(pending) > 1

\* the line the result of the call was built from, and that line with the
\* newline placeholder restored
AcceptedLine == response_lines(<<entry>>, reply)[1]
RestoredLine == replace(AcceptedLine, minted.newline_token, <<LF>>)

\* the line has an opening bracket and, after it, a closing bracket
Framed(line) == find(line, OQ) > 0 /\ rfind(line, CQ) > find(line, OQ)

\* the speaker prefix of the prompt line: the speaker and the opening bracket
SpeakerPrefix == entry.speaker \o <<OQ>>

begins_with(s, prefix) ==
    Len(prefix) <= Len(s) /\ SubSeq(s, 1, Len(prefix)) = prefix

count(s, c) == Cardinality({i \in 1..Len(s) : s[i] = c})

Target == returned.value[1].target

\* the call returned the result of an entry with a speaker from a line with
\* an opening bracket followed by a closing bracket
C11_Case ==
    /\ bt_pc = "returned"
    /\ "speaker" \in DOMAIN entry
    /\ Framed(RestoredLine)

\* C11 as stated: for an entry with a speaker and an accepted line with an
\* opening bracket followed by a closing bracket, the target contains
\* neither quote placeholder and does not begin with the speaker prefix,
\* target_speaker is the text before the first opening bracket and the body
\* is cut at the last closing bracket.
C11_QuotesStripped ==
    C11_Case =>
        /\ ~contains(Target, minted.quote_start_token)
        /\ ~contains(Target, minted.quote_end_token)
        /\ ~begins_with(Target, SpeakerPrefix)
        /\ returned.value[1].target_speaker
             = SubSeq(RestoredLine, 1, find(RestoredLine, OQ) - 1)
        /\ Len(Target) <= rfind(RestoredLine, CQ) - find(RestoredLine, OQ) - 1

\* C11, amended: for an entry with a speaker and an accepted line with an
\* opening bracket followed by a closing bracket, target_speaker is the text
\* before the first opening bracket, the target is the text between the
\* first opening and the last closing bracket with the quote placeholders
\* replaced by the brackets, and it contains neither quote placeholder; it
\* begins with the speaker prefix when the line repeats the prefix right
\* after the first opening bracket.
C11_QuotesRestored ==
    C11_Case =>
        LET first == find(RestoredLine, OQ)
            last == rfind(RestoredLine, CQ)
            between == SubSeq(RestoredLine, first + 1, last - 1)
        IN  /\ returned.value[1].target_speaker = SubSeq(RestoredLine, 1, first - 1)
            /\ Target = replace(replace(between, minted.quote_start_token, <<OQ>>),
                                minted.quote_end_token, <<CQ>>)
            /\ ~contains(Target, minted.quote_start_token)
            /\ ~contains(Target, minted.quote_end_token)
            /\ begins_with(between, SpeakerPrefix) => begins_with(Target, SpeakerPrefix)

\* a line with a translated speaker and both quote placeholders between the
\* brackets gave a target with the brackets in their place
C11_Witness ==
    /\ C11_Case
    /\ contains(AcceptedLine, minted.quote_start_token)
    /\ contains(AcceptedLine, minted.quote_end_token)
    /\ returned.value[1].target_speaker = <<"s">>
    /\ Target = <<OQ, CQ>>

\* the places of a character in a line
places(line, c) == {i \in 1..Len(line) : line[i] = c}

\* the reply carries the newline placeholder where the line of the prompt
\* has it and, for an entry with a speaker, the brackets where the prompt
\* has them
EchoesNewlines ==
    /\ places(reply, minted.newline_token[1]) = places(input_line, minted.newline_token[1])
    /\ "speaker" \in DOMAIN entry =>
          /\ places(reply, OQ) = places(input_line, OQ)
          /\ places(reply, CQ) = places(input_line, CQ)

C13_Case ==
    /\ bt_pc \in {"ask", "returned"}
    /\ "speaker" \notin DOMAIN entry

\* C13 as stated: for an entry without speaker, the line of the prompt with
\* the newline placeholder replaced by LF is the source.
C13_RoundTripIdentity ==
    C13_Case => restored_text(input_line, minted.newline_token) = entry.source

\* C13, amended: for an entry without speaker, the line of the prompt with
\* the newline placeholder replaced by LF is the source with every CR LF
\* made LF, so it is the source when the source has no CR LF; a reply that
\* is accepted as that line unchanged gives this text as the target.
C13_RoundTripNormalised ==
    C13_Case =>
        /\ restored_text(input_line, minted.newline_token)
             = replace(entry.source, <<CR, LF>>, <<LF>>)
        /\ ~contains(entry.source, <<CR, LF>>)
             => restored_text(input_line, minted.newline_token) = entry.source
        /\ bt_pc = "returned" /\ AcceptedLine = input_line
             => Target = replace(entry.source, <<CR, LF>>, <<LF>>)

\* a source with a text that looks like a placeholder and an LF went through
\* the prompt and came back unchanged
C13_Witness ==
    /\ C13_Case
    /\ bt_pc = "returned"
    /\ AcceptedLine = input_line
    /\ contains(entry.source, placeholder_token("NL", 0))
    /\ contains(entry.source, <<LF>>)
    /\ Target = entry.source

\* ---- the driver of one file
NoWorkerStarted ==
    /\ \A w \in endpoints : thread[w] = NoThread /\ processing_texts[w] = <<>>
    /\ translated_results = <<>>

Skipped == pending = {} /\ pc = "skipped" /\ NoWorkerStarted /\ ~rewritten

ResultAt(i) ==
    CHOOSE e \in {translated_results[k] : k \in 1..Len(translated_results)} :
        e.index = i - 1

\* C15: in the file written back, the object of every translated entry is
\* the object of the input with target (and target_speaker) added: source
\* and the other fields of the input keep their values, whatever the
\* dictionary did to the dispatched source.
C15_InputFieldsKept ==
    pc = "written" =>
        \A i \in 1..Len(file_content) :
            (i - 1) \in Indices(translated_results) =>
                /\ DOMAIN data[i] = DOMAIN file_content[i] \cup {"target"}
                /\ \A f \in DOMAIN file_content[i] \ {"target", "target_speaker"} :
                       data[i][f] = file_content[i][f]

OnDisk == IF rewritten THEN data ELSE file_content

\* C17: when the run was interrupted while the file was being translated,
\* every entry the loop had integrated by then is in the file with its
\* target.
C17_InterruptPersistsDone ==
    pc = "interrupted" =>
        \A k \in 1..Len(translated_results) :
            get(OnDisk[translated_results[k].index + 1], "target", <<>>)
                = translated_results[k].target

\* ---- the arguments of the calls
Requested(w) == calls[w].state \in {"streaming", "streamed"}

\* C19: the timeout of every request is the timeout of the command line
\* and its proxy is the proxy of the command line.
C19_TimeoutAndProxyApplied ==
    \A w \in DOMAIN calls :
        Requested(w) =>
            /\ calls[w].request.timeout = args.timeout
            /\ calls[w].request.proxy = args.proxy

\* C20: with more than one endpoint no call is made with stream_output and
\* nothing of a reply is printed, whatever --stream-output says; whenever
\* something of a reply was printed, there is one endpoint and the flag is
\* set.
C20_NoStreamingInParallel ==
    /\ (args # Unset /\ Cardinality(args.endpoints) > 1) =>
           /\ printed = <<>>
           /\ \A w \in DOMAIN calls :
                  calls[w].state # "none" => ~calls[w].kwargs.stream_output
    /\ printed # <<>> => Cardinality(args.endpoints) = 1 /\ args.stream_output

C20_Witness ==
    /\ Cardinality(args.endpoints) > 1
    /\ args.stream_output
    /\ printed = <<>>
    /\ \A w \in DOMAIN calls :
           calls[w].state = "streamed" /\ calls[w].api_response # <<>>

\* ---- the coroutine generation
\* the indices some translator has excluded
Excluded == UNION {translators[t].excluded_messages : t \in DOMAIN translators}

\* C18: a message excluded after its batch of one failed is not handed out
\* again, to any translator: it is not being translated in any later state.
C18_ExcludedStaysOut ==
    \A k \in 1..Len(messages) :
        messages[k].index \in Excluded => ~messages[k].translating

\* ---- the dispatches of the loop
\* the dispatcher handles the outcome of worker w in this step
PicksUp(w) ==
    /\ pc = "for" /\ cursor = w /\ DispatcherStepped
    /\ result_container[w] # <<>>

IsCountError(outcome) ==
    outcome.kind = "error" /\ outcome.exc = "TranslationCountError"

\* C21 as stated: an entry of a batch that met a TranslationCountError when
\* taken with size b is afterwards only in batches of at most max(1, b/2)
\* entries.
C21_HalvedUntilDone ==
    \A w \in endpoints :
        \A k \in 1..Len(processing_texts[w]) :
            LET limit == retry_limit[processing_texts[w][k].index]
            IN  limit > 0 =>
                  Len(processing_texts[w]) <= (IF limit > 1 THEN limit ELSE 1)

\* C21, amended: picking up a TranslationCountError halves the size in
\* force; the size grows only in a step that integrates a successful
\* result, which restores the configured size; every batch handed out has
\* at most the entries the size in force allows.
C21_HalvedUntilSuccess ==
    [][ /\ dynamic_batch_size' > dynamic_batch_size =>
             /\ \E w \in endpoints : PicksUp(w) /\ is_list(result_container[w][1])
             /\ dynamic_batch_size' = batch_size
        /\ \A w \in endpoints :
             PicksUp(w) =>
               /\ IsCountError(result_container[w][1]) =>
                      dynamic_batch_size' = dynamic_batch_size \div 2
               /\ Len(processing_texts'[w]) <= dynamic_batch_size'
      ]_vars

\* a TranslationCountError was picked up, the size is halved and an entry
\* of the failed batch is in a batch of the halved size
C21_Witness ==
    /\ IsCountError(batch_result)
    /\ dynamic_batch_size = 1
    /\ \E w \in endpoints :
          /\ thread[w].state = "running"
          /\ Len(processing_texts[w]) = 1
          /\ retry_limit[processing_texts[w][1].index] = 1

\* C22: the step in which the dispatcher integrates a successful result
\* leaves dynamic_batch_size at the configured batch size, whatever it was.
C22_SizeRestored ==
    [][ \A w \in endpoints :
          PicksUp(w) /\ is_list(result_container[w][1]) =>
            /\ dynamic_batch_size' = batch_size
            /\ Indices(result_container[w][1].value) \subseteq Indices(translated_results')
      ]_vars

\* a batch failed and halved the size, and the success picked up after it
\* has restored the size
C22_Witness ==
    /\ batch_size > 1
    /\ \E i \in DOMAIN retry_limit : retry_limit[i] > 0
    /\ is_list(batch_result) /\ batch_result.value # <<>>
    /\ dynamic_batch_size = batch_size

IsSorted(s) == \A i, j \in 1..Len(s) : i < j => s[i].index < s[j].index

Smaller(a, b) == IF a < b THEN a ELSE b

\* C23: the queue is sorted by index in every state, and the batch the
\* dispatcher hands to a worker is the first min(batch size, length of the
\* queue) entries of the queue as it is after the outcome was handled, in
\* index order, removed from the queue in the same step.
C23_HeadOfSortedQueue ==
    /\ []IsSorted(untranslated_texts)
    /\ [][ \A w \in endpoints :
             PicksUp(w) =>
               LET whole == processing_texts'[w] \o untranslated_texts'
                   before == Indices(untranslated_texts) \cup
                             (IF result_container[w][1].kind = "error"
                              THEN Indices(processing_texts[w]) ELSE {})
               IN  /\ IsSorted(whole)
                   /\ Indices(whole) = before
                   /\ Len(whole) = Cardinality(before)
                   /\ Len(processing_texts'[w]) = Smaller(dynamic_batch_size', Len(whole))
                   /\ (processing_texts'[w] # <<>> =>
                         /\ thread'[w].state = "running"
                         /\ thread'[w].source_texts = processing_texts'[w])
         ]_vars

\* a failed batch was returned to the queue and the worker was handed the
\* head of the queue, entries remaining behind it
C23_Witness ==
    /\ batch_result.kind = "error"
    /\ \E w \in endpoints :
          /\ thread[w].state = "running"
          /\ processing_texts[w] # <<>>
          /\ retry_limit[processing_texts[w][1].index] > 0
          /\ untranslated_texts # <<>>
          /\ processing_texts[w][Len(processing_texts[w])].index < untranslated_texts[1].index

\* C24: the history handed to a worker has at most history_size entries,
\* also for history_size 0; they are entries of done, ascending by index.
C24_HistoryWindow ==
    \A w \in DOMAIN handed :
        /\ Len(handed[w].translation_history) <= history_size
        /\ IsSorted(handed[w].translation_history)
        /\ Indices(handed[w].translation_history) \subseteq Indices(translated_results)

\* C25: in every step every entry of done stays in done as it is, and no
\* entry of done is in the queue or in the batch in flight of a worker.
C25_DoneOnlyGrows ==
    /\ [][Range(translated_results) \subseteq Range(translated_results')]_vars
    /\ [](\A i \in Indices(translated_results) :
             /\ i \notin Indices(untranslated_texts)
             /\ \A w \in endpoints : i \notin Indices(processing_texts[w]))

\* done holds the results of more than one batch
C25_Witness ==
    /\ is_list(batch_result)
    /\ batch_result.value # <<>>
    /\ Len(batch_result.value) < Len(translated_results)
    /\ \E w \in endpoints : thread[w].state = "running"

\* C26: a worker's container holds at most one outcome, and none while the
\* worker's thread runs; a thread is started for a worker only in the step
\* in which the dispatcher picks up and clears the outcome of the worker,
\* whose thread is not running then.
C26_OneRequestPerWorker ==
    /\ [](\A w \in endpoints :
             /\ Len(result_container[w]) <= 1
             /\ thread[w].state = "running" => result_container[w] = <<>>)
    /\ [][ \A w \in endpoints :
             (thread'[w].state = "running" /\ thread'[w] # thread[w]) =>
               /\ thread[w].state # "running"
               /\ PicksUp(w)
               /\ result_container'[w] = <<>>
         ]_vars

\* a worker's thread published while the dispatcher was on its way: the
\* outcome waits in the container, the other worker has its next request
C26_Witness ==
    \E w, v \in endpoints :
        /\ w # v
        /\ pc = "for" /\ cursor = v
        /\ thread[w].state = "running" /\ translated_results # <<>>
        /\ thread[v].state = "none" /\ result_container[v] # <<>>
        /\ is_list(result_container[v][1])

\* a terminator: the line [DONE], or a frame whose finish_reason is set
IsTerminator(l) ==
    /\ l.kind = "data"
    /\ \/ l.payload = DoneLine.payload
       \/ l.payload.json /\ l.payload.finish_reason \notin {"absent", "null", ""}

\* the number of the first terminator of the body, one past the end if none
FirstTerminator(body) ==
    IF \E k \in 1..Len(body) : IsTerminator(body[k])
    THEN CHOOSE k \in 1..Len(body) :
             /\ IsTerminator(body[k])
             /\ \A j \in 1..(k - 1) : ~IsTerminator(body[j])
    ELSE Len(body) + 1

RECURSIVE ContentsOf(_)
\* the non-empty delta contents of the data frames of the lines, in order
ContentsOf(body) ==
    IF body = <<>> THEN <<>>
    ELSE LET l == Head(body)
         IN  (IF l.kind = "data" /\ l.payload.json
                 /\ l.payload.content \notin {"absent", ""}
              THEN <<l.payload.content>> ELSE <<>>) \o ContentsOf(Tail(body))

StreamOver == stream_pc \in {"closed", "exhausted", "raised"}

\* C27: no line after the first terminator is taken, and once the stream is
\* over the generator has ended without an error and has yielded exactly
\* the non-empty contents of the frames before the first terminator.
C27_YieldsUpToTerminator ==
    /\ stream_pc # "idle" =>
          line_no <= (IF FirstTerminator(response) <= Len(response)
                      THEN FirstTerminator(response) ELSE Len(response))
    /\ StreamOver =>
          /\ stream_pc # "raised"
          /\ fragments = ContentsOf(SubSeq(response, 1,
                                           FirstTerminator(response) - 1))

\* C28: a reply with an empty line is not accepted for a batch of more than
\* one entry: when the call returns results for such a batch, no line of
\* the reply is empty and no entry has the empty target; a reply with an
\* empty line makes the call fail.
C28_NoEmptyLineAccepted ==
    (batch_outcome # Unset /\ Len(batch_sources) > 1) =>
        LET lines == splitlines(batch_response)
        IN  IF \E k \in 1..Len(lines) : lines[k] = <<>>
            THEN batch_outcome.kind = "raise"
            ELSE batch_outcome.kind = "return" =>
                   \A k \in 1..Len(batch_outcome.value) :
                       batch_outcome.value[k].target # <<>>

RECURSIVE Repeat(_, _)
\* n occurrences of t, one after the other
Repeat(t, n) == IF n = 0 THEN <<>> ELSE t \o Repeat(t, n - 1)

\* there is a suffix t of R, 1 <= |t| < |R|/T, such that R ends in T
\* consecutive occurrences of t
EndsInRun(R, T) ==
    \E n \in 1..Len(R) :
        /\ n * T < Len(R)
        /\ suffix(R, n * T) = Repeat(suffix(R, n), T)

\* C29: check_degen(R, T) reports degeneration exactly when R ends in T
\* consecutive non-overlapping occurrences of one of its suffixes t with
\* 1 <= |t| < |R|/T.
C29_DegenExact ==
    degen_report # Unset =>
        (degen_report.value <=> EndsInRun(degen_resp, degen_threshold))

\* C30: with every reply degenerate, the penalty of a request is raised at
\* most PenaltyRaises times, and a translator that makes requests for a
\* batch leaves the inner loop with the last entry of the batch excluded.
C30_DegenerationEnds ==
    /\ [](\A name \in Translators :
             translators[name].frequency_penalty \in 0..PenaltyRaises)
    /\ \A name \in Translators :
          (translators[name].pc = "request") ~>
              /\ translators[name].pc # "request"
              /\ translators[name].excluded_messages # {}

\* a translator that takes two messages at a time has halved a batch,
\* excluded what was left, gone for the other message and excluded it too
C30_Witness ==
    \E name \in Translators :
        /\ translators[name].number_per_request_translate = 2
        /\ Cardinality(translators[name].excluded_messages) = 2
        /\ translators[name].pc = "returned"

\* C31: every token returned has the form <base-r> of its call and is in
\* no source of the batch nor in their join; the tokens of one batch are
\* pairwise distinct; a call raises only after max_attempts attempts that
\* all drew a token of the text, and no call makes more attempts.
C31_MintedTokensFresh ==
    /\ \A k \in 1..Len(mint_tokens) :
          /\ \E r \in 0..RandomMax : mint_tokens[k] = placeholder_token(Bases[k], r)
          /\ ~contains(joined(mint_sources), mint_tokens[k])
          /\ \A i \in 1..Len(mint_sources) : ~contains(mint_sources[i], mint_tokens[k])
          /\ \A j \in 1..Len(mint_tokens) : j # k => mint_tokens[j] # mint_tokens[k]
    /\ mint_pc = "raised" =>
          /\ mint_attempts = max_attempts
          /\ \E r \in 0..RandomMax :
                contains(joined(mint_sources),
                         placeholder_token(Bases[Len(mint_tokens) + 1], r))
    /\ Minting => mint_attempts < max_attempts

\* a batch of two sources with a QS token in the first and an NL token in
\* the second got its three tokens, the NL token the one that is in neither
C31_Witness ==
    /\ mint_pc = "done"
    /\ Len(mint_sources) = 2
    /\ contains(mint_sources[2], placeholder_token("NL", 0))
    /\ contains(mint_sources[1], placeholder_token("QS", 0))
    /\ Len(mint_tokens) = 3
    /\ mint_tokens[1] = placeholder_token("NL", 1)

\* C32: every request that runs was started for at least one entry, and the
\* batch in flight of its worker is that batch.
C32_NoEmptyBatch ==
    \A w \in endpoints :
        thread[w].state = "running" =>
            /\ thread[w].source_texts # <<>>
            /\ processing_texts[w] # <<>>

\* all of a comes before all of b
Before(a, b) == \A i \in a, j \in b : i < j

IsSuffix(t, s) ==
    Len(t) <= Len(s) /\ t = SubSeq(s, Len(s) - Len(t) + 1, Len(s))

\* C33: with one endpoint, done holds the lowest pending indices; a request
\* that runs has the pending entries that come directly after done, and the
\* history it was given is an end piece of done.
C33_DoneIsPrefix ==
    endpoints = 1..1 =>
        LET done == Indices(translated_results)
            batch == Indices(processing_texts[1])
        IN  /\ Cardinality(done) = Len(translated_results)
            /\ done \subseteq pending
            /\ Before(done, pending \ done)
            /\ thread[1].state = "running" =>
                  /\ batch = Indices(thread[1].source_texts)
                  /\ batch \cap done = {}
                  /\ Before(batch, pending \ (done \cup batch))
                  /\ IsSuffix(handed[1].translation_history, translated_results)

\* the one endpoint has translated a batch, had a batch of two refused and
\* works on the entry after done with the last of done as its history
C33_Witness ==
    /\ endpoints = 1..1
    /\ batch_size = 2
    /\ dynamic_batch_size = 1
    /\ thread[1].state = "running"
    /\ translated_results # <<>>
    /\ handed[1].translation_history # <<>>
    /\ untranslated_texts # <<>>

\* C34: a translator whose coroutine is over (returned, ended on a fatal
\* failure or left by an exception) holds no message marked translating.
C34_EndedReleasesAll ==
    \A name \in DOMAIN translators :
        translators[name].pc \in {"returned", "ended", "raised"} =>
            \A k \in 1..Len(messages) :
                messages[k].index \in Range(translators[name].messages_to_translate)
                    => ~messages[k].translating
====
